---- MODULE Spec2Model ----
(***************************************************************************)
(* Model of the quiz backend: the token verifier of backend/security.py    *)
(* and the in-memory page/question/answer store of backend/app.py.         *)
(*                                                                         *)
(* Every HTTP handler of app.py is an `async def` without any await, so    *)
(* the event loop runs each handler body to completion before it starts    *)
(* another: one action per handler, taken atomically.  The dependency      *)
(* verify_api_key runs before the handler body and touches no store state, *)
(* so it is evaluated inside the action of the handler it guards.          *)
(***************************************************************************)
EXTENDS Integers, Sequences, FiniteSets, TLC

VARIABLES active_pages, response, clock, header

vars == <<active_pages, response, clock, header>>

(***************************************************************************)
(* Bounds of the model.                                                    *)
(***************************************************************************)
MaxPages == 1
MaxOptions == 3
MaxAnswers == 2

(***************************************************************************)
(* Python values.  None is a record of its own; an Optional[str] is a      *)
(* sequence holding at most one string, <<>> standing for None.            *)
(***************************************************************************)
None == [py_none |-> TRUE]
NoStr == <<>>
Truthy(s) == s # NoStr /\ s[1] # ""

PageIds == 1..MaxPages

(* Only({F(x) : x \in {e}}) is F(e) with e evaluated once: the model's way *)
(* of naming an intermediate result, as a local variable of the code does. *)
Only(S) == CHOOSE x \in S : TRUE

(***************************************************************************)
(*                      backend/security.py                                *)
(*                                                                         *)
(* A str or bytes value is the sequence of its character codes.            *)
(***************************************************************************)
SIGNATURE_SIZE == 64

(* base64.b64decode(api_key), validate=False: the str is encoded as ASCII  *)
(* (a non-ASCII character is a ValueError), then binascii.a2b_base64 runs  *)
(* in its non-strict mode: characters outside the alphabet are skipped,    *)
(* decoding stops at a complete pad sequence, and a quad left unfinished   *)
(* is binascii.Error (a ValueError).                                       *)
B64_PAD == 61

table_a2b_base64(c) ==
    IF c >= 65 /\ c <= 90 THEN c - 65
    ELSE IF c >= 97 /\ c <= 122 THEN c - 71
    ELSE IF c >= 48 /\ c <= 57 THEN c + 4
    ELSE IF c = 43 THEN 62
    ELSE IF c = 47 THEN 63
    ELSE 64

IsB64Data(c) == table_a2b_base64(c) < 64

(* The state of a2b_base64's loop when it reaches s[i]: quad_pos is the    *)
(* number of alphabet characters before i modulo 4, and pads the number of *)
(* pad characters since the last alphabet character (counted while         *)
(* quad_pos >= 2; an alphabet character resets it).                        *)
QuadPos(s, i) == Cardinality({j \in 1..(i - 1) : IsB64Data(s[j])}) % 4

Pads(s, i) ==
    Cardinality({j \in 1..(i - 1) :
        /\ s[j] = B64_PAD
        /\ \A k \in (j + 1)..(i - 1) : ~IsB64Data(s[k])})

(* The loop leaves at the first pad character that completes a quad. *)
PadStops(s, i) ==
    /\ s[i] = B64_PAD
    /\ QuadPos(s, i) >= 2
    /\ QuadPos(s, i) + Pads(s, i) + 1 >= 4

FirstStop(s) ==
    LET stops == {i \in 1..Len(s) : PadStops(s, i)} IN
    IF stops = {} THEN Len(s) + 1
    ELSE CHOOSE i \in stops : \A j \in stops : i <= j

(* The bytes of the 6-bit values of chars, the alphabet characters read. *)
QuadBytes(chars) ==
    LET n == Len(chars)
        val(k) == table_a2b_base64(chars[k])
        nbytes == 3 * (n \div 4) + (IF n % 4 = 2 THEN 1 ELSE IF n % 4 = 3 THEN 2 ELSE 0)
        byte(m) ==
            LET q == 4 * ((m - 1) \div 3) IN
            IF (m - 1) % 3 = 0 THEN val(q + 1) * 4 + (val(q + 2) \div 16)
            ELSE IF (m - 1) % 3 = 1 THEN (val(q + 2) % 16) * 16 + (val(q + 3) \div 4)
            ELSE (val(q + 3) % 4) * 64 + val(q + 4)
    IN  [m \in 1..nbytes |-> byte(m)]

a2b_base64(s) ==
    Only({ Only({ [ok |-> stop <= Len(s) \/ Len(chars) % 4 = 0, data |-> QuadBytes(chars)] :
                  chars \in {SelectSeq(SubSeq(s, 1, stop - 1), IsB64Data)} }) :
           stop \in {FirstStop(s)} })

b64decode(str) ==
    Only({ IF \E i \in 1..Len(s) : s[i] >= 128
           THEN [ok |-> FALSE, data |-> <<>>]
           ELSE a2b_base64(s) :
           s \in {str} })

(* The issuer's side of the encoding (base64.b64encode), used to build the *)
(* credentials the model presents.                                         *)
table_b2a_base64(v) ==
    IF v < 26 THEN v + 65
    ELSE IF v < 52 THEN v + 71
    ELSE IF v < 62 THEN v - 4
    ELSE IF v = 62 THEN 43
    ELSE 47

B64Chars(b) ==
    LET n == Len(b)
        byte(i) == IF i <= n THEN b[i] ELSE 0
        char(j) ==
            LET g == 3 * ((j - 1) \div 4) IN
            IF (j - 1) % 4 = 0 THEN table_b2a_base64(byte(g + 1) \div 4)
            ELSE IF (j - 1) % 4 = 1
            THEN table_b2a_base64((byte(g + 1) % 4) * 16 + (byte(g + 2) \div 16))
            ELSE IF (j - 1) % 4 = 2
            THEN IF g + 2 > n THEN B64_PAD
                 ELSE table_b2a_base64((byte(g + 2) % 16) * 4 + (byte(g + 3) \div 64))
            ELSE IF g + 3 > n THEN B64_PAD
                 ELSE table_b2a_base64(byte(g + 3) % 64)
    IN  [j \in 1..(4 * ((n + 2) \div 3)) |-> char(j)]

b64encode(bytes) == Only({ B64Chars(b) : b \in {bytes} })

(***************************************************************************)
(* json.loads(payload_bytes).  The bytes are decoded as UTF-8 (the model's *)
(* payloads never start with a byte-order mark or hold a NUL in their      *)
(* first bytes, so detect_encoding answers utf-8); a byte of 128 or more   *)
(* that no multi-byte sequence accounts for is a UnicodeDecodeError, which *)
(* is a ValueError.  The scanner is json.scanner's: a value is a string,   *)
(* an object, an array, a literal or a number, with JSON white space       *)
(* allowed around it, and anything after the top-level value is an error.  *)
(* A parsed value is a record with the Python type and the value.          *)
(***************************************************************************)
JStr(s) == [type |-> "str", v |-> s]
JNumber(text) == [type |-> "number", v |-> text]
JLiteral(text) == [type |-> "literal", v |-> text]
JList(items) == [type |-> "list", v |-> items]
JDict(pairs) == [type |-> "dict", v |-> pairs]

JFail == [ok |-> FALSE, val |-> JLiteral(<<>>), end |-> 0]
JOk(val, end) == [ok |-> TRUE, val |-> val, end |-> end]

At(s, i) == IF i >= 1 /\ i <= Len(s) THEN s[i] ELSE -1

IsWs(c) == c \in {32, 9, 10, 13}
IsDigit(c) == c >= 48 /\ c <= 57

RECURSIVE SkipWs(_, _)
SkipWs(s, i) == IF IsWs(At(s, i)) THEN SkipWs(s, i + 1) ELSE i

RECURSIVE DigitsEnd(_, _)
DigitsEnd(s, i) == IF IsDigit(At(s, i)) THEN DigitsEnd(s, i + 1) ELSE i

StartsWith(s, i, lit) ==
    /\ i + Len(lit) - 1 <= Len(s)
    /\ \A k \in 1..Len(lit) : s[i + k - 1] = lit[k]

(* NUMBER_RE matched at i: an optional minus sign, then 0 or a digit 1-9   *)
(* followed by digits; optionally a point and digits; optionally e or E,   *)
(* a sign and digits.  The index after the match, or 0 when none.          *)
MatchNumber(s, i) ==
    LET j == IF At(s, i) = 45 THEN i + 1 ELSE i
        intEnd == IF At(s, j) = 48 THEN j + 1
                  ELSE IF IsDigit(At(s, j)) THEN DigitsEnd(s, j)
                  ELSE 0
        fracEnd == IF intEnd # 0 /\ At(s, intEnd) = 46 /\ IsDigit(At(s, intEnd + 1))
                   THEN DigitsEnd(s, intEnd + 1)
                   ELSE intEnd
        expSign == IF At(s, fracEnd + 1) \in {43, 45} THEN fracEnd + 2 ELSE fracEnd + 1
        expEnd == IF fracEnd # 0 /\ At(s, fracEnd) \in {69, 101} /\ IsDigit(At(s, expSign))
                  THEN DigitsEnd(s, expSign)
                  ELSE fracEnd
    IN  expEnd

HexVal(c) ==
    IF IsDigit(c) THEN c - 48
    ELSE IF c >= 97 /\ c <= 102 THEN c - 87
    ELSE IF c >= 65 /\ c <= 70 THEN c - 55
    ELSE -1

(* BACKSLASH of json.decoder: the character a simple escape stands for.    *)
Unescape(c) ==
    IF c = 34 THEN 34
    ELSE IF c = 92 THEN 92
    ELSE IF c = 47 THEN 47
    ELSE IF c = 98 THEN 8
    ELSE IF c = 102 THEN 12
    ELSE IF c = 110 THEN 10
    ELSE IF c = 114 THEN 13
    ELSE IF c = 116 THEN 9
    ELSE -1

(* scanstring(s, i, strict=True), i being the index after the opening      *)
(* quote.  A \uXXXX escape yields the code unit XXXX (a surrogate pair is  *)
(* left as its two units).                                                 *)
RECURSIVE scanstring(_, _, _)
scanstring(s, i, chunks) ==
    LET c == At(s, i) IN
    IF c = -1 THEN JFail
    ELSE IF c = 34 THEN JOk(chunks, i + 1)
    ELSE IF c < 32 THEN JFail
    ELSE IF c # 92 THEN scanstring(s, i + 1, Append(chunks, c))
    ELSE LET esc == At(s, i + 1) IN
         IF esc = 117
         THEN LET h == [k \in 1..4 |-> HexVal(At(s, i + 1 + k))] IN
              IF \E k \in 1..4 : h[k] = -1 THEN JFail
              ELSE scanstring(s, i + 6,
                     Append(chunks, h[1] * 4096 + h[2] * 256 + h[3] * 16 + h[4]))
         ELSE IF Unescape(esc) = -1 THEN JFail
         ELSE scanstring(s, i + 2, Append(chunks, Unescape(esc)))

SetItem(pairs, key, value) ==
    [k \in DOMAIN pairs \cup {key} |-> IF k = key THEN value ELSE pairs[k]]

RECURSIVE scan_once(_, _)
RECURSIVE JSONObjectItems(_, _, _)
RECURSIVE JSONArrayItems(_, _, _)

(* JSONObject after a pair is stored, sep being the index of the next      *)
(* character that is not white space.                                      *)
JSONObjectNext(s, sep, pairs) ==
    IF At(s, sep) = 125 THEN JOk(JDict(pairs), sep + 1)
    ELSE IF At(s, sep) # 44 THEN JFail
    ELSE Only({ IF At(s, quote) # 34 THEN JFail
                ELSE JSONObjectItems(s, quote + 1, pairs) :
                quote \in {SkipWs(s, sep + 1)} })

JSONObjectValue(s, key, colon, pairs) ==
    IF At(s, colon) # 58 THEN JFail
    ELSE Only({ IF ~value.ok THEN JFail
                ELSE Only({ JSONObjectNext(s, SkipWs(s, value.end), stored) :
                            stored \in {SetItem(pairs, key, value.val)} }) :
                value \in {scan_once(s, SkipWs(s, colon + 1))} })

(* JSONObject's loop, i being the index after the opening quote of a key.  *)
JSONObjectItems(s, i, pairs) ==
    Only({ IF ~key.ok THEN JFail
           ELSE Only({ JSONObjectValue(s, key.val, colon, pairs) :
                       colon \in {SkipWs(s, key.end)} }) :
           key \in {scanstring(s, i, <<>>)} })

(* JSONObject, i being the index after the opening brace.                  *)
JSONObject(s, i) ==
    Only({ IF At(s, j) = 125 THEN JOk(JDict(<<>>), j + 1)
           ELSE IF At(s, j) # 34 THEN JFail
           ELSE JSONObjectItems(s, j + 1, <<>>) :
           j \in {SkipWs(s, i)} })

JSONArrayNext(s, sep, items) ==
    IF At(s, sep) = 93 THEN JOk(JList(items), sep + 1)
    ELSE IF At(s, sep) # 44 THEN JFail
    ELSE Only({ JSONArrayItems(s, next, items) : next \in {SkipWs(s, sep + 1)} })

JSONArrayItems(s, i, items) ==
    Only({ IF ~value.ok THEN JFail
           ELSE Only({ JSONArrayNext(s, SkipWs(s, value.end), stored) :
                       stored \in {Append(items, value.val)} }) :
           value \in {scan_once(s, i)} })

JSONArray(s, i) ==
    Only({ IF At(s, j) = 93 THEN JOk(JList(<<>>), j + 1)
           ELSE JSONArrayItems(s, j, <<>>) :
           j \in {SkipWs(s, i)} })

LitNull == <<110, 117, 108, 108>>
LitTrue == <<116, 114, 117, 101>>
LitFalse == <<102, 97, 108, 115, 101>>
LitNaN == <<78, 97, 78>>
LitInfinity == <<73, 110, 102, 105, 110, 105, 116, 121>>
LitNegInfinity == <<45>> \o LitInfinity

scan_once(s, i) ==
    LET c == At(s, i) IN
    IF c = -1 THEN JFail
    ELSE IF c = 34
    THEN Only({ IF str.ok THEN JOk(JStr(str.val), str.end) ELSE JFail :
                str \in {scanstring(s, i + 1, <<>>)} })
    ELSE IF c = 123 THEN JSONObject(s, i + 1)
    ELSE IF c = 91 THEN JSONArray(s, i + 1)
    ELSE IF StartsWith(s, i, LitNull) THEN JOk(JLiteral(LitNull), i + 4)
    ELSE IF StartsWith(s, i, LitTrue) THEN JOk(JLiteral(LitTrue), i + 4)
    ELSE IF StartsWith(s, i, LitFalse) THEN JOk(JLiteral(LitFalse), i + 5)
    ELSE IF MatchNumber(s, i) # 0
    THEN JOk(JNumber(SubSeq(s, i, MatchNumber(s, i) - 1)), MatchNumber(s, i))
    ELSE IF StartsWith(s, i, LitNaN) THEN JOk(JLiteral(LitNaN), i + 3)
    ELSE IF StartsWith(s, i, LitInfinity) THEN JOk(JLiteral(LitInfinity), i + 8)
    ELSE IF StartsWith(s, i, LitNegInfinity) THEN JOk(JLiteral(LitNegInfinity), i + 9)
    ELSE JFail

json_loads(bytes) ==
    Only({ IF \E i \in 1..Len(b) : b[i] >= 128 THEN JFail
           ELSE Only({ IF ~obj.ok THEN JFail
                       ELSE IF SkipWs(b, obj.end) # Len(b) + 1 THEN JFail
                       ELSE obj :
                       obj \in {scan_once(b, SkipWs(b, 1))} }) :
           b \in {bytes} })

(***************************************************************************)
(* The signature scheme behind PUBLIC_KEY (Ed25519, 64-byte signatures).   *)
(* The model idealises it: the holder of the private key signs a message   *)
(* with a 64-byte value derived from a digest of every byte of the         *)
(* message, and PUBLIC_KEY.verify(signature, data) passes exactly for that *)
(* value (it raises InvalidSignature for any other).                       *)
(***************************************************************************)
RECURSIVE Digest(_, _)
Digest(m, n) ==
    IF n = 0 THEN 7
    ELSE (Digest(m, n - 1) * 257 + m[n] + 1) % 1000003

Ed25519Sign(m) ==
    Only({ [j \in 1..SIGNATURE_SIZE |->
               IF j = 1 THEN h % 256
               ELSE IF j = 2 THEN (h \div 256) % 256
               ELSE IF j = 3 THEN (h \div 65536) % 256
               ELSE (h * j + j) % 256] :
           h \in {Digest(m, Len(m))} })

PUBLIC_KEY_verify(signature, data) == signature = Ed25519Sign(data)

(* raw_data[:-SIGNATURE_SIZE] and raw_data[-SIGNATURE_SIZE:] *)
PayloadBytes(raw_data) ==
    IF Len(raw_data) <= SIGNATURE_SIZE THEN <<>>
    ELSE SubSeq(raw_data, 1, Len(raw_data) - SIGNATURE_SIZE)

SignatureBytes(raw_data) ==
    IF Len(raw_data) <= SIGNATURE_SIZE THEN raw_data
    ELSE SubSeq(raw_data, Len(raw_data) - SIGNATURE_SIZE + 1, Len(raw_data))

(* a < b on two str values: code points compared lexicographically, a      *)
(* proper prefix being the smaller.                                        *)
RECURSIVE StrLess(_, _)
StrLess(a, b) ==
    IF Len(b) = 0 THEN FALSE
    ELSE IF Len(a) = 0 THEN TRUE
    ELSE IF a[1] # b[1] THEN a[1] < b[1]
    ELSE StrLess(Tail(a), Tail(b))

(* k in payload, for a one-character key k: membership in a dict's keys,   *)
(* in a list's items, or as a substring of a str.  Any other JSON value is *)
(* not iterable and the test raises TypeError.                             *)
Iterable(payload) == payload.type \in {"dict", "list", "str"}

Contains(payload, k) ==
    IF payload.type = "dict" THEN k \in DOMAIN payload.v
    ELSE IF payload.type = "list"
    THEN \E i \in 1..Len(payload.v) : payload.v[i] = JStr(k)
    ELSE \E i \in 1..Len(payload.v) : payload.v[i] = k[1]

KeyT == <<116>>
KeyE == <<101>>
KeyX == <<120>>

InvalidAPIKey == [kind |-> "InvalidAPIKey", status_code |-> 403, detail |-> "Invalid API key"]
ExpiredAPIKey == [kind |-> "ExpiredAPIKey", status_code |-> 403, detail |-> "Token expired"]
(* An exception the except clause does not name leaves verify_api_key as   *)
(* it is: the framework turns it into a 500 response.                      *)
UncaughtTypeError == [kind |-> "TypeError", status_code |-> 500, detail |-> "Internal Server Error"]

Claim(payload) ==
    [kind |-> "Claim", tid |-> payload.v[KeyT], email |-> payload.v[KeyE],
     expires |-> payload.v[KeyX]]

(* CheckPayload without the signature check: the claim is returned as     *)
(* soon as the expiry passes.                                              *)
CheckPayloadUnverified(payload, payload_bytes, signature, date) ==
    IF ~Iterable(payload) THEN UncaughtTypeError
    ELSE IF ~(Contains(payload, KeyT) /\ Contains(payload, KeyE) /\ Contains(payload, KeyX))
    THEN InvalidAPIKey
    ELSE IF payload.type # "dict" THEN UncaughtTypeError
    ELSE IF payload.v[KeyX].type # "str" THEN UncaughtTypeError
    ELSE IF StrLess(payload.v[KeyX].v, date) THEN ExpiredAPIKey
    ELSE Claim(payload)

(* CheckPayload with the signature verified before the dates. *)
CheckPayloadSignatureFirst(payload, payload_bytes, signature, date) ==
    IF ~Iterable(payload) THEN UncaughtTypeError
    ELSE IF ~(Contains(payload, KeyT) /\ Contains(payload, KeyE) /\ Contains(payload, KeyX))
    THEN InvalidAPIKey
    ELSE IF payload.type # "dict" THEN UncaughtTypeError
    ELSE IF payload.v[KeyX].type # "str" THEN UncaughtTypeError
    ELSE IF ~PUBLIC_KEY_verify(signature, payload_bytes) THEN InvalidAPIKey
    ELSE IF StrLess(payload.v[KeyX].v, date) THEN ExpiredAPIKey
    ELSE Claim(payload)

(* The part of verify_api_key that follows json.loads. *)
CheckPayload(payload, payload_bytes, signature, date) ==
    IF ~Iterable(payload) THEN UncaughtTypeError
    ELSE IF ~(Contains(payload, KeyT) /\ Contains(payload, KeyE) /\ Contains(payload, KeyX))
    THEN InvalidAPIKey
    ELSE IF payload.type # "dict" THEN UncaughtTypeError
    ELSE IF payload.v[KeyX].type # "str" THEN UncaughtTypeError
    ELSE IF StrLess(payload.v[KeyX].v, date) THEN ExpiredAPIKey
    ELSE IF PUBLIC_KEY_verify(signature, payload_bytes) THEN Claim(payload)
    ELSE InvalidAPIKey

(* The part of verify_api_key that follows base64.b64decode. *)
VerifyRaw(raw_data, date) ==
    Only({ Only({ IF ~parsed.ok THEN InvalidAPIKey
                  ELSE CheckPayload(parsed.val, payload_bytes,
                                    SignatureBytes(raw_data), date) :
                  parsed \in {json_loads(payload_bytes)} }) :
           payload_bytes \in {PayloadBytes(raw_data)} })

verify_api_key(api_key, date) ==
    Only({ IF ~decoded.ok THEN InvalidAPIKey
           ELSE VerifyRaw(decoded.data, date) :
           decoded \in {b64decode(api_key)} })

(***************************************************************************)
(* datetime.now().strftime('%Y%m%d'): the clock is a day of November 2026  *)
(* and today is its date string.                                           *)
(***************************************************************************)
strftime(day) == <<50, 48, 50, 54, 49, 49, 48 + (day \div 10), 48 + (day % 10)>>

Days == {2, 3}

(***************************************************************************)
(* The credentials presented to the verifier.  The issuer is outside the   *)
(* repository: it serialises the claims t, e, x as a JSON object, signs    *)
(* those bytes and base64-encodes payload and signature together.  A       *)
(* payload may carry a stale "x" entry before the one in force (json.loads *)
(* keeps the last entry of a repeated key).                                *)
(***************************************************************************)
IssuedClaims == [t : {<<97>>}, e : {<<98>>}, x : {strftime(1), strftime(2), strftime(3)}]

Serialize(claims, stale) ==
    <<123, 34, 116, 34, 58, 34>> \o claims.t \o <<34, 44, 34, 101, 34, 58, 34>> \o claims.e
    \o (IF stale THEN <<34, 44, 34, 120, 34, 58, 49, 44>> ELSE <<34, 44>>)
    \o <<34, 120, 34, 58, 34>> \o claims.x \o <<34, 125>>

Issue(payload_bytes) ==
    Only({ b64encode(p \o Ed25519Sign(p)) : p \in {payload_bytes} })

(* Payloads no issuer serialised: an object without x, an object whose x   *)
(* is a number, a list and a str holding the three keys, a number, text    *)
(* that is not JSON, and no payload at all.                                *)
PayloadNoX == <<123, 34, 116, 34, 58, 34, 97, 34, 44, 34, 101, 34, 58, 34, 98, 34, 125>>
PayloadNumericX == <<123, 34, 116, 34, 58, 34, 97, 34, 44, 34, 101, 34, 58, 34, 98, 34, 44, 34, 120, 34, 58, 50, 48, 50, 54, 49, 49, 48, 51, 125>>
PayloadList == <<91, 34, 116, 34, 44, 34, 101, 34, 44, 34, 120, 34, 93>>
PayloadStr == <<34, 116, 101, 120, 34>>
PayloadNumber == <<53>>
PayloadNotJson == <<110, 111, 112, 101>>
OddPayloads ==
    {PayloadNoX, PayloadNumericX, PayloadList, PayloadStr, PayloadNumber,
     PayloadNotJson, <<>>}

(* One bit of one byte inverted. *)
FlipBit(bytes, i, k) ==
    [bytes EXCEPT ![i] = IF (bytes[i] \div 2^k) % 2 = 1
                         THEN bytes[i] - 2^k ELSE bytes[i] + 2^k]

(***************************************************************************)
(*                           backend/app.py                                *)
(***************************************************************************)
today == strftime(clock)

(* datetime.now().isoformat(), to the precision of the model's clock. *)
isoformat == clock

(* An api-key header, with what the model remembers beside it: whether an  *)
(* issuer signed it, the claims and payload bytes the issuer serialised,   *)
(* the byte a bit of which was inverted since (0: none), and whether its   *)
(* signature was replaced.  NoHeader: the request carries no such header.  *)
NoClaims == [t |-> <<>>, e |-> <<>>, x |-> <<>>]
NoHeader ==
    [api_key |-> <<>>, issued |-> FALSE, claims |-> NoClaims, payload |-> <<>>,
     flipped |-> 0, forged |-> FALSE]

Credential(claims, stale) ==
    [api_key |-> Issue(Serialize(claims, stale)), issued |-> TRUE, claims |-> claims,
     payload |-> Serialize(claims, stale), flipped |-> 0, forged |-> FALSE]

Uncredited(api_key) ==
    [api_key |-> api_key, issued |-> FALSE, claims |-> NoClaims, payload |-> <<>>,
     flipped |-> 0, forged |-> FALSE]

Unsigned(payload_bytes) == b64encode(payload_bytes \o [j \in 1..SIGNATURE_SIZE |-> 0])

PresenterClaims(day) == [t |-> <<97>>, e |-> <<98>>, x |-> strftime(day)]

(* The api-key headers presented to the store's endpoints: signed claims   *)
(* that expire on the model's first day (valid that day, expired the       *)
(* next), signed claims that expired before it, unexpired claims under a   *)
(* signature that is not the issuer's, and a signed payload whose x is a   *)
(* number.                                                                 *)
ApiKeyHeaders ==
    {Credential(PresenterClaims(2), FALSE),
     Credential(PresenterClaims(1), FALSE),
     [Credential(PresenterClaims(3), FALSE) EXCEPT
         !.api_key = Unsigned(Serialize(PresenterClaims(3), FALSE)),
         !.forged = TRUE],
     Uncredited(Issue(PayloadNumericX))}

ApiKeys == {h.api_key : h \in ApiKeyHeaders}

(* Depends(verify_api_key): the outcome of the dependency for each header  *)
(* on each day.                                                            *)
Authorization ==
    [api_key \in ApiKeys |-> [day \in Days |-> verify_api_key(api_key, strftime(day))]]

SeqsUpTo(S, n) == UNION {[1..k -> S] : k \in 0..n}

(* Request bodies. *)
Pages == [title : {"Quiz"}, description : {"demo"}]

OptionInputs ==
    {[text |-> "yes", is_correct |-> TRUE, html |-> NoStr],
     [text |-> "no", is_correct |-> FALSE, html |-> <<"<i>no</i>">>]}

QuestionHtml(allow_multiple) == IF allow_multiple THEN <<"<b>2+2?</b>">> ELSE <<"">>

QuestionInputs ==
    {[text |-> "2+2?", options |-> options, allow_multiple |-> allow_multiple,
      html |-> QuestionHtml(allow_multiple)] :
        options \in SeqsUpTo(OptionInputs, MaxOptions), allow_multiple \in BOOLEAN}

(* option_indices of a StudentAnswer: every increasing list of positions,  *)
(* lists with a repeated or an unordered position, and lists with a        *)
(* position before the first or after the last option.                     *)
IsIncreasing(s) == \A i \in 1..(Len(s) - 1) : s[i] < s[i + 1]

IndexLists ==
    {s \in SeqsUpTo(0..(MaxOptions - 1), MaxOptions) : IsIncreasing(s)}
    \cup {<<0, 0>>, <<1, 0>>, <<-1>>, <<MaxOptions>>, <<0, MaxOptions>>, <<0, -1>>}

(* Page ids a request may name: the uuids the model can allocate, and one  *)
(* that is never allocated.                                                *)
RequestIds == PageIds \cup {0}

(* Responses. *)
Response(op, status_code, body) == [op |-> op, status_code |-> status_code, body |-> body]
HTTPException(op, status_code, detail) == Response(op, status_code, [detail |-> detail])
Rejected(op, auth) == HTTPException(op, auth.status_code, auth.detail)
Success == [status |-> "success"]

TotalAnswers ==
    LET RECURSIVE Sum(_)
        Sum(ids) == IF ids = {} THEN 0
                    ELSE LET p == CHOOSE q \in ids : TRUE
                         IN  Len(active_pages[p].answers) + Sum(ids \ {p})
    IN  Sum(DOMAIN active_pages)

(* A dependency that raises ends the request before the handler runs. *)
Reject(op, auth) ==
    /\ response' = Rejected(op, auth)
    /\ UNCHANGED active_pages

(* @app.post("/api/pages/"); uuid.uuid4() is an id no page has yet. *)
create_page(page) ==
    \E page_id \in PageIds \ DOMAIN active_pages :
        /\ active_pages' = SetItem(active_pages, page_id,
                [title |-> page.title,
                 description |-> page.description,
                 current_question |-> None,
                 answers |-> <<>>,
                 created_at |-> isoformat])
        /\ response' = Response("create_page", 200, [page_id |-> page_id])

(* A copy of the option that keeps its flag. *)
SanitizedOptionWithFlag(opt) ==
    [text |-> opt.text, html |-> IF "html" \in DOMAIN opt THEN opt.html ELSE NoStr,
     is_correct |-> opt.is_correct]

(* The sanitized copy get_page_status makes of a stored question. *)
SanitizedOption(opt) ==
    [text |-> opt.text, html |-> IF "html" \in DOMAIN opt THEN opt.html ELSE NoStr]

SanitizedQuestion(question) ==
    [question EXCEPT
        !.options = [i \in DOMAIN question.options |-> SanitizedOption(question.options[i])],
        !.allow_multiple = question.allow_multiple]

PageData(page) ==
    IF page.current_question # None
    THEN [page EXCEPT !.current_question = SanitizedQuestion(page.current_question)]
    ELSE page

(* get_page_status that sanitizes the stored question itself. *)
get_page_status_in_place(page_id) ==
    IF page_id \notin DOMAIN active_pages
    THEN /\ response' = HTTPException("get_page_status", 404, "Page not found")
         /\ UNCHANGED active_pages
    ELSE /\ response' = Response("get_page_status", 200, PageData(active_pages[page_id]))
         /\ active_pages' = [active_pages EXCEPT ![page_id] = PageData(active_pages[page_id])]

(* @app.get("/api/pages/{page_id}") *)
get_page_status(page_id) ==
    /\ response' = IF page_id \notin DOMAIN active_pages
                   THEN HTTPException("get_page_status", 404, "Page not found")
                   ELSE Response("get_page_status", 200, PageData(active_pages[page_id]))
    /\ UNCHANGED active_pages

StoredOption(opt) ==
    IF Truthy(opt.html)
    THEN [text |-> opt.text, is_correct |-> opt.is_correct, html |-> opt.html]
    ELSE [text |-> opt.text, is_correct |-> opt.is_correct]

CorrectCount(options) == Cardinality({i \in DOMAIN options : options[i].is_correct})

(* question_data with the flag as requested. *)
QuestionDataAsRequested(question) ==
    LET base == [text |-> question.text,
                 options |-> [i \in DOMAIN question.options |-> StoredOption(question.options[i])],
                 allow_multiple |-> question.allow_multiple,
                 created_at |-> isoformat,
                 active |-> TRUE]
    IN  IF Truthy(question.html) THEN SetItem(base, "html", question.html) ELSE base

QuestionData(question) ==
    LET base == [text |-> question.text,
                 options |-> [i \in DOMAIN question.options |-> StoredOption(question.options[i])],
                 allow_multiple |-> question.allow_multiple \/ CorrectCount(question.options) > 1,
                 created_at |-> isoformat,
                 active |-> TRUE]
    IN  IF Truthy(question.html) THEN SetItem(base, "html", question.html) ELSE base

(* post_question storing the question without resetting the answers. *)
post_question_keeping_answers(page_id, question) ==
    IF page_id \notin DOMAIN active_pages
    THEN /\ response' = HTTPException("post_question", 404, "Page not found")
         /\ UNCHANGED active_pages
    ELSE IF ~(\E i \in DOMAIN question.options : question.options[i].is_correct)
    THEN /\ response' = HTTPException("post_question", 400,
                            "At least one option must be marked as correct")
         /\ UNCHANGED active_pages
    ELSE /\ active_pages' = [active_pages EXCEPT
                                ![page_id].current_question = QuestionData(question)]
         /\ response' = Response("post_question", 200, Success)

(* post_question without the check for a correct option. *)
post_question_unchecked(page_id, question) ==
    IF page_id \notin DOMAIN active_pages
    THEN /\ response' = HTTPException("post_question", 404, "Page not found")
         /\ UNCHANGED active_pages
    ELSE /\ active_pages' = [active_pages EXCEPT
                                ![page_id].current_question = QuestionData(question),
                                ![page_id].answers = <<>>]
         /\ response' = Response("post_question", 200, Success)

(* @app.post("/api/pages/{page_id}/questions") *)
post_question(page_id, question) ==
    /\ IF page_id \notin DOMAIN active_pages
       THEN /\ response' = HTTPException("post_question", 404, "Page not found")
            /\ UNCHANGED active_pages
       ELSE IF ~(\E i \in DOMAIN question.options : question.options[i].is_correct)
       THEN /\ response' = HTTPException("post_question", 400,
                               "At least one option must be marked as correct")
            /\ UNCHANGED active_pages
       ELSE /\ active_pages' = [active_pages EXCEPT
                                   ![page_id].current_question = QuestionData(question),
                                   ![page_id].answers = <<>>]
            /\ response' = Response("post_question", 200, Success)

(* The correctness post_answer computes for option_indices. *)
ToSet(s) == {s[i] : i \in DOMAIN s}

(* Correctness that accepts any selection made of correct options only. *)
IsCorrectSubset(question, option_indices) ==
    IF question.allow_multiple
    THEN LET correct_indices ==
                 {i \in 0..(Len(question.options) - 1) : question.options[i + 1].is_correct}
         IN  ToSet(option_indices) # {} /\ ToSet(option_indices) \subseteq correct_indices
    ELSE IF Len(option_indices) > 0
         THEN question.options[option_indices[1] + 1].is_correct
         ELSE FALSE

(* Correctness that looks at the first option whatever was selected. *)
IsCorrectFirstOption(question, option_indices) ==
    IF question.allow_multiple
    THEN LET correct_indices ==
                 {i \in 0..(Len(question.options) - 1) : question.options[i + 1].is_correct}
         IN  ToSet(option_indices) = correct_indices
    ELSE IF Len(option_indices) > 0
         THEN question.options[1].is_correct
         ELSE FALSE

IsCorrect(question, option_indices) ==
    IF question.allow_multiple
    THEN LET correct_indices ==
                 {i \in 0..(Len(question.options) - 1) : question.options[i + 1].is_correct}
         IN  ToSet(option_indices) = correct_indices
    ELSE IF Len(option_indices) > 0
         THEN question.options[option_indices[1] + 1].is_correct
         ELSE FALSE

(* post_answer that counts the selections before it validates them. *)
post_answer_counting_first(page_id, answer) ==
    IF page_id \notin DOMAIN active_pages
    THEN /\ response' = HTTPException("post_answer", 404, "Page not found")
         /\ UNCHANGED active_pages
    ELSE LET page == active_pages[page_id]
             question == page.current_question
         IN
         IF question = None \/ ~question.active
         THEN /\ response' = HTTPException("post_answer", 400, "No active question")
              /\ UNCHANGED active_pages
         ELSE IF ~question.allow_multiple /\ Len(answer.option_indices) > 1
         THEN /\ response' = HTTPException("post_answer", 400,
                                 "Multiple selections not allowed for this question")
              /\ UNCHANGED active_pages
         ELSE IF \E k \in DOMAIN answer.option_indices :
                     \/ answer.option_indices[k] < 0
                     \/ answer.option_indices[k] >= Len(question.options)
         THEN /\ response' = HTTPException("post_answer", 400, "Invalid option index")
              /\ UNCHANGED active_pages
         ELSE /\ TotalAnswers < MaxAnswers
              /\ active_pages' = [active_pages EXCEPT ![page_id].answers =
                     Append(@, [option_indices |-> answer.option_indices,
                                timestamp |-> isoformat,
                                is_correct |-> IsCorrect(question, answer.option_indices)])]
              /\ response' = Response("post_answer", 200, Success)

(* post_answer that stores the list it read with the new answer in place   *)
(* of the last one.                                                        *)
post_answer_losing_updates(page_id, answer) ==
    IF page_id \notin DOMAIN active_pages
    THEN /\ response' = HTTPException("post_answer", 404, "Page not found")
         /\ UNCHANGED active_pages
    ELSE LET page == active_pages[page_id]
             question == page.current_question
         IN
         IF question = None \/ ~question.active
         THEN /\ response' = HTTPException("post_answer", 400, "No active question")
              /\ UNCHANGED active_pages
         ELSE IF \E k \in DOMAIN answer.option_indices :
                     \/ answer.option_indices[k] < 0
                     \/ answer.option_indices[k] >= Len(question.options)
         THEN /\ response' = HTTPException("post_answer", 400, "Invalid option index")
              /\ UNCHANGED active_pages
         ELSE IF ~question.allow_multiple /\ Len(answer.option_indices) > 1
         THEN /\ response' = HTTPException("post_answer", 400,
                                 "Multiple selections not allowed for this question")
              /\ UNCHANGED active_pages
         ELSE /\ TotalAnswers < MaxAnswers
              /\ active_pages' = [active_pages EXCEPT ![page_id].answers =
                     <<[option_indices |-> answer.option_indices,
                        timestamp |-> isoformat,
                        is_correct |-> IsCorrect(question, answer.option_indices)]>>]
              /\ response' = Response("post_answer", 200, Success)

(* post_answer that refuses only when the page never had a question. *)
post_answer_ignoring_active(page_id, answer) ==
    IF page_id \notin DOMAIN active_pages
    THEN /\ response' = HTTPException("post_answer", 404, "Page not found")
         /\ UNCHANGED active_pages
    ELSE LET page == active_pages[page_id]
             question == page.current_question
         IN
         IF question = None
         THEN /\ response' = HTTPException("post_answer", 400, "No active question")
              /\ UNCHANGED active_pages
         ELSE IF \E k \in DOMAIN answer.option_indices :
                     \/ answer.option_indices[k] < 0
                     \/ answer.option_indices[k] >= Len(question.options)
         THEN /\ response' = HTTPException("post_answer", 400, "Invalid option index")
              /\ UNCHANGED active_pages
         ELSE IF ~question.allow_multiple /\ Len(answer.option_indices) > 1
         THEN /\ response' = HTTPException("post_answer", 400,
                                 "Multiple selections not allowed for this question")
              /\ UNCHANGED active_pages
         ELSE /\ TotalAnswers < MaxAnswers
              /\ active_pages' = [active_pages EXCEPT ![page_id].answers =
                     Append(@, [option_indices |-> answer.option_indices,
                                timestamp |-> isoformat,
                                is_correct |-> IsCorrect(question, answer.option_indices)])]
              /\ response' = Response("post_answer", 200, Success)

(* @app.post("/api/pages/{page_id}/answers") *)
post_answer(page_id, answer) ==
    /\ IF page_id \notin DOMAIN active_pages
       THEN /\ response' = HTTPException("post_answer", 404, "Page not found")
            /\ UNCHANGED active_pages
       ELSE LET page == active_pages[page_id]
                question == page.current_question
            IN
            IF question = None \/ ~question.active
            THEN /\ response' = HTTPException("post_answer", 400, "No active question")
                 /\ UNCHANGED active_pages
            ELSE IF \E k \in DOMAIN answer.option_indices :
                        \/ answer.option_indices[k] < 0
                        \/ answer.option_indices[k] >= Len(question.options)
            THEN /\ response' = HTTPException("post_answer", 400, "Invalid option index")
                 /\ UNCHANGED active_pages
            ELSE IF ~question.allow_multiple /\ Len(answer.option_indices) > 1
            THEN /\ response' = HTTPException("post_answer", 400,
                                    "Multiple selections not allowed for this question")
                 /\ UNCHANGED active_pages
            ELSE /\ TotalAnswers < MaxAnswers
                 /\ active_pages' = [active_pages EXCEPT ![page_id].answers =
                        Append(@, [option_indices |-> answer.option_indices,
                                   timestamp |-> isoformat,
                                   is_correct |-> IsCorrect(question, answer.option_indices)])]
                 /\ response' = Response("post_answer", 200, Success)

(* The quotient taken whatever the total. *)
PercentageUnguarded(count, total_answers) ==
    [num |-> count * 100, den |-> total_answers]

(* count / total_answers * 100 if total_answers > 0 else 0, kept as the    *)
(* exact fraction (the float's rounding is not modelled).                  *)
Percentage(count, total_answers) ==
    IF total_answers > 0
    THEN [num |-> count * 100, den |-> total_answers]
    ELSE [num |-> 0, den |-> 1]

(* Statistics that count, for an option, the answers selecting it first. *)
StatisticsOfFirstSelections(question, answers) ==
    LET total_answers == Len(answers)
        correct_answers == Cardinality({k \in DOMAIN answers : answers[k].is_correct})
        count(i) == Cardinality({k \in DOMAIN answers :
                        /\ answers[k].option_indices # <<>>
                        /\ answers[k].option_indices[1] = i})
    IN  [total_answers |-> total_answers,
         correct_answers |-> correct_answers,
         correct_percentage |-> Percentage(correct_answers, total_answers),
         option_stats |-> [i \in 0..(Len(question.options) - 1) |->
                              [count |-> count(i),
                               percentage |-> Percentage(count(i), total_answers),
                               is_correct |-> question.options[i + 1].is_correct]],
         is_multiple_choice |-> question.allow_multiple]

Statistics(question, answers) ==
    LET total_answers == Len(answers)
        correct_answers == Cardinality({k \in DOMAIN answers : answers[k].is_correct})
        count(i) == Cardinality({k \in DOMAIN answers :
                        \E j \in DOMAIN answers[k].option_indices :
                            answers[k].option_indices[j] = i})
    IN  [total_answers |-> total_answers,
         correct_answers |-> correct_answers,
         correct_percentage |-> Percentage(correct_answers, total_answers),
         option_stats |-> [i \in 0..(Len(question.options) - 1) |->
                              [count |-> count(i),
                               percentage |-> Percentage(count(i), total_answers),
                               is_correct |-> question.options[i + 1].is_correct]],
         is_multiple_choice |-> question.allow_multiple]

(* close_question that refuses a question already closed. *)
close_question_once(page_id) ==
    IF page_id \notin DOMAIN active_pages
    THEN /\ response' = HTTPException("close_question", 404, "Page not found")
         /\ UNCHANGED active_pages
    ELSE IF \/ active_pages[page_id].current_question = None
            \/ ~active_pages[page_id].current_question.active
    THEN /\ response' = HTTPException("close_question", 400, "No active question")
         /\ UNCHANGED active_pages
    ELSE /\ active_pages' = [active_pages EXCEPT ![page_id].current_question.active = FALSE]
         /\ response' = Response("close_question", 200,
                           Statistics(active_pages[page_id].current_question,
                                      active_pages[page_id].answers))

(* @app.post("/api/pages/{page_id}/close-question") *)
close_question(page_id) ==
    /\ IF page_id \notin DOMAIN active_pages
       THEN /\ response' = HTTPException("close_question", 404, "Page not found")
            /\ UNCHANGED active_pages
       ELSE IF active_pages[page_id].current_question = None
       THEN /\ response' = HTTPException("close_question", 400, "No active question")
            /\ UNCHANGED active_pages
       ELSE /\ active_pages' = [active_pages EXCEPT ![page_id].current_question.active = FALSE]
            /\ response' = Response("close_question", 200,
                              Statistics(active_pages[page_id].current_question,
                                         active_pages[page_id].answers))

(***************************************************************************)
(* The store's state machine: requests arrive in any order on one day,     *)
(* each handled in one step.  The endpoints that declare                   *)
(* Depends(verify_api_key) run their handler only when the dependency      *)
(* returns a claim; header is the api-key header of the request just       *)
(* handled.                                                                *)
(***************************************************************************)
NoResponse == Response("none", 0, None)
Init ==
    /\ active_pages = <<>>
    /\ response = NoResponse
    /\ clock \in Days
    /\ header = NoHeader

CreatePage ==
    \E h \in ApiKeyHeaders :
        /\ header' = h
        /\ UNCHANGED clock
        /\ LET auth == Authorization[h.api_key][clock] IN
           IF auth.kind # "Claim" THEN Reject("create_page", auth)
           ELSE \E page \in Pages : create_page(page)

GetPageStatus ==
    /\ header' = NoHeader
    /\ UNCHANGED clock
    /\ \E page_id \in RequestIds : get_page_status(page_id)

PostQuestion ==
    \E h \in ApiKeyHeaders :
        /\ header' = h
        /\ UNCHANGED clock
        /\ LET auth == Authorization[h.api_key][clock] IN
           IF auth.kind # "Claim" THEN Reject("post_question", auth)
           ELSE \E page_id \in RequestIds, question \in QuestionInputs :
                   post_question(page_id, question)

PostAnswer ==
    /\ header' = NoHeader
    /\ UNCHANGED clock
    /\ \E page_id \in RequestIds, option_indices \in IndexLists :
           post_answer(page_id, [option_indices |-> option_indices])

(* close-question with its handler run whatever the dependency returns. *)
CloseQuestionForAnyone ==
    \E h \in ApiKeyHeaders :
        /\ header' = h
        /\ UNCHANGED clock
        /\ \E page_id \in RequestIds : close_question(page_id)

CloseQuestion ==
    \E h \in ApiKeyHeaders :
        /\ header' = h
        /\ UNCHANGED clock
        /\ LET auth == Authorization[h.api_key][clock] IN
           IF auth.kind # "Claim" THEN Reject("close_question", auth)
           ELSE \E page_id \in RequestIds : close_question(page_id)

Next ==
    \/ CreatePage
    \/ GetPageStatus
    \/ PostQuestion
    \/ PostAnswer
    \/ CloseQuestion

Spec == Init /\ [][Next]_vars

(***************************************************************************)
(* The verifier on its own: verify_api_key applied to one api-key header.  *)
(* The header starts as a credential the issuer signed (its claims are     *)
(* remembered beside it), as a signed payload no issuer serialised, or as  *)
(* a string that is no credential; before it is verified a bit of the      *)
(* decoded blob may be inverted, or the signature replaced by one made     *)
(* for other bytes.                                                        *)
(***************************************************************************)
(* Not base64 (one character), not ASCII, and a blob shorter than a        *)
(* signature.                                                              *)
MalformedKeys == {<<97>>, <<97, 233, 97, 97>>, b64encode(PayloadNotJson)}

Headers ==
    {Credential(claims, stale) : claims \in IssuedClaims, stale \in BOOLEAN}
    \cup {Uncredited(Issue(payload_bytes)) : payload_bytes \in OddPayloads}
    \cup {Uncredited(api_key) : api_key \in MalformedKeys}

InitVerify ==
    /\ active_pages = <<>>
    /\ response = NoResponse
    /\ clock \in Days
    /\ header \in Headers

FlipOneBit ==
    /\ response = NoResponse
    /\ header.issued /\ header.flipped = 0 /\ ~header.forged
    /\ \E raw_data \in {b64decode(header.api_key).data} :
         \E i \in 1..Len(raw_data), k \in 0..7 :
            header' = [header EXCEPT !.api_key = b64encode(FlipBit(raw_data, i, k)),
                                     !.flipped = i]
    /\ UNCHANGED <<active_pages, response, clock>>

ForgeSignature ==
    /\ response = NoResponse
    /\ header.issued /\ header.flipped = 0 /\ ~header.forged
    /\ \E payload_bytes \in {PayloadBytes(b64decode(header.api_key).data)} :
         \E other \in {<<>>, PayloadNotJson, Serialize(PresenterClaims(4), FALSE)} :
            header' = [header EXCEPT
                          !.api_key = b64encode(payload_bytes \o Ed25519Sign(other)),
                          !.forged = TRUE]
    /\ UNCHANGED <<active_pages, response, clock>>

VerifyHeader ==
    /\ response = NoResponse
    /\ \E outcome \in {verify_api_key(header.api_key, today)} :
         response' = Response("verify_api_key",
                              IF outcome.kind = "Claim" THEN 200 ELSE outcome.status_code,
                              outcome)
    /\ UNCHANGED <<active_pages, clock, header>>

NextVerify ==
    \/ FlipOneBit
    \/ ForgeSignature
    \/ VerifyHeader

SpecVerify == InitVerify /\ [][NextVerify]_vars

(***************************************************************************)
(* Properties of the verifier (checked under SpecVerify).                  *)
(***************************************************************************)
Verified == response.op = "verify_api_key"
Outcome == response.body

(* The flipped bit, if any, lies in the signature: the payload bytes are   *)
(* the bytes the issuer serialised.                                        *)
PayloadIntact == header.flipped = 0 \/ header.flipped > Len(header.payload)
SignatureIntact == ~header.forged /\ header.flipped = 0
Unexpired == ~StrLess(header.claims.x, today)

MatchingClaim ==
    [kind |-> "Claim", tid |-> JStr(header.claims.t), email |-> JStr(header.claims.e),
     expires |-> JStr(header.claims.x)]

(* C7: verify returns a Claim only for a credential whose expiry is not    *)
(* before today and whose last 64 bytes are the signature of exactly the   *)
(* payload bytes before them, and the Claim then carries the payload's t,  *)
(* e and x; an unexpired, well-formed payload whose signature does not     *)
(* verify (forged, or a signature bit changed) is rejected as Invalid.     *)
ClaimOnlyWhenSignedAndUnexpired ==
    Verified =>
        /\ Outcome.kind = "Claim" =>
              /\ header.issued /\ SignatureIntact
              /\ Unexpired
              /\ Outcome = MatchingClaim
        /\ header.issued /\ Unexpired /\ PayloadIntact /\ ~SignatureIntact
              => Outcome = InvalidAPIKey

(* C7 witness: a signed credential expiring today has been accepted. *)
ClaimReturnedOnExpiryDay ==
    /\ Verified /\ Outcome.kind = "Claim"
    /\ header.claims.x = today

(* C8: a credential whose payload's x is before today is rejected as       *)
(* Expired whether or not its signature verifies.                          *)
ExpiredWhateverTheSignature ==
    Verified /\ header.issued /\ PayloadIntact /\ ~Unexpired
        => Outcome = ExpiredAPIKey

(* C8 witness: an expired payload under a forged signature was reported    *)
(* Expired.                                                                *)
ExpiredWithForgedSignature ==
    /\ Verified /\ header.issued /\ header.forged /\ ~Unexpired
    /\ Outcome = ExpiredAPIKey

InExpiryDigits(i) == i >= Len(header.payload) - 9 /\ i <= Len(header.payload) - 2
IsExpiryKey(i) == i = Len(header.payload) - 13
HasStaleExpiry == header.payload = Serialize(header.claims, TRUE)

StatusView == response.op = "get_page_status" /\ response.status_code = 200
View == response.body
Answered(op) == response.op = op /\ response.status_code = 200

(* C1: in the view get_page_status builds of any session, whether its      *)
(* question is active or closed, every option carries only the text and    *)
(* the rich content of the stored option (an empty rich content when the   *)
(* stored option has none), and no option carries a correctness flag.      *)
ViewOptionsCarryNoFlag ==
    /\ \A p \in DOMAIN active_pages :
          LET stored == active_pages[p].current_question
              view == PageData(active_pages[p]).current_question
          IN  stored # None =>
                /\ DOMAIN view.options = DOMAIN stored.options
                /\ \A i \in DOMAIN stored.options :
                      /\ DOMAIN view.options[i] = {"text", "html"}
                      /\ view.options[i].text = stored.options[i].text
                      /\ view.options[i].html =
                            IF "html" \in DOMAIN stored.options[i]
                            THEN stored.options[i].html ELSE NoStr
    /\ StatusView /\ View.current_question # None =>
          \A i \in DOMAIN View.current_question.options :
              "is_correct" \notin DOMAIN View.current_question.options[i]

(* C1 witness: a status read returned a closed question with a correct     *)
(* and an incorrect option.                                                *)
StatusOfClosedQuestionReturned ==
    /\ StatusView /\ View.current_question # None
    /\ ~View.current_question.active
    /\ \E p \in DOMAIN active_pages :
          /\ PageData(active_pages[p]) = View
          /\ \E i, j \in DOMAIN active_pages[p].current_question.options :
                /\ active_pages[p].current_question.options[i].is_correct
                /\ ~active_pages[p].current_question.options[j].is_correct

(* C2 as stated: no response of create_page, post_question, post_answer    *)
(* or get_page_status carries a correctness value, on an option or on an   *)
(* answer.                                                                 *)
RevealsCorrectness(body) ==
    \/ "is_correct" \in DOMAIN body
    \/ /\ "current_question" \in DOMAIN body
       /\ body.current_question # None
       /\ \E i \in DOMAIN body.current_question.options :
             "is_correct" \in DOMAIN body.current_question.options[i]
    \/ /\ "answers" \in DOMAIN body
       /\ \E k \in DOMAIN body.answers : "is_correct" \in DOMAIN body.answers[k]

CorrectnessRevealedOnlyByClose ==
    response.op \in {"create_page", "post_question", "post_answer", "get_page_status"}
        => ~RevealsCorrectness(response.body)

(* C3: a successful publish replaces the question and empties the answers  *)
(* in one step, so that in every state (and so in every status view) the   *)
(* answers are answers to the current question: the question changes only  *)
(* by a publish, which leaves no answer, or by a close, which only clears  *)
(* its active flag; answers change only by a publish emptying them or by a *)
(* submit appending one to an unchanged question.                          *)
PublishReplacesQuestionAndAnswersTogether ==
    [][/\ response'.op = "post_question" /\ response'.status_code = 200 =>
              \E p \in DOMAIN active_pages :
                  /\ active_pages'[p].answers = <<>>
                  /\ active_pages'[p].current_question # None
                  /\ active_pages'[p].current_question.active
                  /\ \A q \in DOMAIN active_pages \ {p} :
                        active_pages'[q] = active_pages[q]
       /\ \A p \in DOMAIN active_pages :
              LET old == active_pages[p]
                  new == active_pages'[p]
              IN  /\ new.current_question # old.current_question =>
                        \/ /\ response'.op = "post_question"
                           /\ new.answers = <<>>
                        \/ /\ response'.op = "close_question"
                           /\ old.current_question # None
                           /\ new.current_question =
                                 [old.current_question EXCEPT !.active = FALSE]
                           /\ new.answers = old.answers
                  /\ new.answers # old.answers =>
                        \/ /\ response'.op = "post_question"
                           /\ new.answers = <<>>
                        \/ /\ response'.op = "post_answer"
                           /\ new.current_question = old.current_question
                           /\ Len(new.answers) = Len(old.answers) + 1
                           /\ SubSeq(new.answers, 1, Len(old.answers)) = old.answers
      ]_vars

(* C3 witness: a publish succeeded, and the page holds the active question *)
(* and no answer.                                                          *)
PublishedWithNoAnswerLeft ==
    /\ Answered("post_question")
    /\ \E p \in DOMAIN active_pages :
          /\ active_pages[p].current_question # None
          /\ active_pages[p].current_question.active
          /\ Len(active_pages[p].current_question.options) > 1
          /\ active_pages[p].answers = <<>>

(* The presented header verifies to a claim: an issuer signed it, nothing  *)
(* of it was changed since, and its expiry is not before today.            *)
Valid(h) == h.issued /\ ~h.forged /\ h.flipped = 0 /\ ~StrLess(h.claims.x, today)

HasNoCorrectOption(question) ==
    \A i \in DOMAIN question.options : ~question.options[i].is_correct

InvalidQuestion ==
    HTTPException("post_question", 400, "At least one option must be marked as correct")

(* C4: a publish, by a valid credential to a known session, of a question  *)
(* with no correct option is answered InvalidQuestion and leaves the store *)
(* unchanged; every stored question has at least one correct option.       *)
QuestionWithoutCorrectOptionIsRefused ==
    [][/\ response'.op = "post_question" /\ Valid(header') =>
              \A page_id \in DOMAIN active_pages, question \in QuestionInputs :
                  HasNoCorrectOption(question) /\ post_question(page_id, question)
                  => response' = InvalidQuestion /\ active_pages' = active_pages
       /\ \A p \in DOMAIN active_pages' :
              active_pages'[p].current_question # None =>
                  ~HasNoCorrectOption(active_pages'[p].current_question)
      ]_vars

(* C4 witness: a publish was answered InvalidQuestion while the page holds *)
(* an earlier question and an answer to it.                                *)
InvalidQuestionRefused ==
    /\ response = InvalidQuestion
    /\ Valid(header)
    /\ \E p \in DOMAIN active_pages :
          /\ active_pages[p].current_question # None
          /\ active_pages[p].answers # <<>>

NoActiveQuestion == HTTPException("post_answer", 400, "No active question")

(* C5: while a session's question is absent or closed its answers do not   *)
(* grow, and every submit to it is answered NoActiveQuestion and leaves    *)
(* the store unchanged.                                                    *)
ClosedQuestionTakesNoAnswer ==
    [][\A p \in DOMAIN active_pages :
           LET question == active_pages[p].current_question
           IN  (question = None \/ ~question.active) =>
                   /\ Len(active_pages'[p].answers) <= Len(active_pages[p].answers)
                   /\ response'.op = "post_answer" =>
                          \A option_indices \in IndexLists :
                              post_answer(p, [option_indices |-> option_indices])
                              => response' = NoActiveQuestion /\ active_pages' = active_pages
      ]_vars

(* C5 witness: a submit to a closed question that has an answer was        *)
(* answered NoActiveQuestion.                                              *)
SubmitAfterCloseRefused ==
    /\ response = NoActiveQuestion
    /\ \E p \in DOMAIN active_pages :
          /\ active_pages[p].current_question # None
          /\ ~active_pages[p].current_question.active
          /\ Len(active_pages[p].answers) = 1

PrivilegedOps == {"create_page", "post_question", "close_question"}

(* C6: create_page, post_question and close_question change the store only *)
(* for a header that verifies to a claim; for a header rejected as Invalid *)
(* or Expired they answer that rejection and leave the store unchanged;    *)
(* post_answer and get_page_status are handled without any header.         *)
OnlyVerifiedPresentersChangeTheStore ==
    [][/\ response'.op \in PrivilegedOps /\ active_pages' # active_pages
              => Valid(header')
       /\ response'.op \in PrivilegedOps /\ ~Valid(header') =>
              /\ active_pages' = active_pages
              /\ header'.issued /\ header'.forged
                    => response' = Rejected(response'.op, InvalidAPIKey)
              /\ header'.issued /\ ~header'.forged
                    => response' = Rejected(response'.op, ExpiredAPIKey)
       /\ response'.op \in {"post_answer", "get_page_status"} => header' = NoHeader
      ]_vars

(* C6 witness: a close-question under an expired credential was rejected   *)
(* and the question is still active.                                       *)
CloseRejectedAsExpired ==
    /\ response = Rejected("close_question", ExpiredAPIKey)
    /\ header.issued /\ ~Valid(header)
    /\ \E p \in DOMAIN active_pages :
          /\ active_pages[p].current_question # None
          /\ active_pages[p].current_question.active
          /\ active_pages[p].answers # <<>>

(* C10: on a question that allows multiple selections a stored answer is   *)
(* correct exactly when every correct position is selected and every       *)
(* selected position is correct; an empty selection is stored incorrect.   *)
MultiSelectCorrectIffExactSet ==
    \A p \in DOMAIN active_pages :
        LET question == active_pages[p].current_question
            answers == active_pages[p].answers
        IN  question # None /\ question.allow_multiple =>
                \A k \in DOMAIN answers :
                    /\ answers[k].is_correct <=>
                          \A i \in 0..(Len(question.options) - 1) :
                              question.options[i + 1].is_correct <=>
                                  \E j \in DOMAIN answers[k].option_indices :
                                      answers[k].option_indices[j] = i
                    /\ answers[k].option_indices = <<>> => ~answers[k].is_correct

(* C10 witness: with the first two of three options correct, the selection *)
(* of both is stored correct and a selection of one of them, or of all     *)
(* three, is stored incorrect.                                             *)
ExactSetCorrectOthersIncorrect ==
    \E p \in DOMAIN active_pages :
        LET question == active_pages[p].current_question
            answers == active_pages[p].answers
        IN  /\ question # None /\ question.allow_multiple
            /\ Len(question.options) = 3
            /\ question.options[1].is_correct /\ question.options[2].is_correct
            /\ ~question.options[3].is_correct
            /\ \E k, l \in DOMAIN answers :
                  /\ answers[k].option_indices = <<0, 1>> /\ answers[k].is_correct
                  /\ answers[l].option_indices \in {<<0>>, <<0, 1, 2>>}
                  /\ ~answers[l].is_correct

InRange(question, option_indices) ==
    \A j \in DOMAIN option_indices :
        option_indices[j] >= 0 /\ option_indices[j] < Len(question.options)

MultipleNotAllowed ==
    HTTPException("post_answer", 400, "Multiple selections not allowed for this question")

(* C11: on a single-select question every stored answer of one index has   *)
(* the correctness of the option at that index, and a submit of more than  *)
(* one in-range index to an active single-select question is answered      *)
(* MultipleNotAllowed and stores nothing.                                  *)
SingleSelectScoredByItsOption ==
    [][/\ \A p \in DOMAIN active_pages' :
              LET question == active_pages'[p].current_question
                  answers == active_pages'[p].answers
              IN  question # None /\ ~question.allow_multiple =>
                      \A k \in DOMAIN answers :
                          Len(answers[k].option_indices) = 1 =>
                              answers[k].is_correct =
                                  question.options[answers[k].option_indices[1] + 1].is_correct
       /\ response'.op = "post_answer" =>
              \A p \in DOMAIN active_pages, option_indices \in IndexLists :
                  LET question == active_pages[p].current_question
                  IN  /\ question # None /\ question.active /\ ~question.allow_multiple
                      /\ Len(option_indices) > 1 /\ InRange(question, option_indices)
                      /\ post_answer(p, [option_indices |-> option_indices])
                      => response' = MultipleNotAllowed /\ active_pages' = active_pages
      ]_vars

(* C11 witness: with options [wrong, correct] on a single-select question, *)
(* the answer {1} is stored correct and the answer {0} incorrect.          *)
SingleSelectBothOutcomesStored ==
    \E p \in DOMAIN active_pages :
        LET question == active_pages[p].current_question
            answers == active_pages[p].answers
        IN  /\ question # None /\ ~question.allow_multiple
            /\ Len(question.options) = 2
            /\ ~question.options[1].is_correct /\ question.options[2].is_correct
            /\ \E k, l \in DOMAIN answers :
                  /\ answers[k].option_indices = <<1>> /\ answers[k].is_correct
                  /\ answers[l].option_indices = <<0>> /\ ~answers[l].is_correct

(* The answers among answers that select position i, and those scored      *)
(* correct.                                                                *)
Selecting(answers, i) ==
    {k \in DOMAIN answers : i \in {answers[k].option_indices[j] :
                                      j \in DOMAIN answers[k].option_indices}}
ScoredCorrect(answers) == {k \in DOMAIN answers : answers[k].is_correct}

(* The fraction a percentage is kept as equals the number pct. *)
IsPercent(fraction, pct) == fraction.den > 0 /\ fraction.num = pct * fraction.den

(* C12: a successful close_question of a page answers with statistics of   *)
(* exactly the answers stored for its question: their number, the number   *)
(* scored correct, for every option position the number of answers that    *)
(* select it with the option's flag, each percentage the count over the    *)
(* total times 100, and the question's allow_multiple.                     *)
CloseReturnsStatisticsOfStoredAnswers ==
    [][response'.op = "close_question" =>
          \A p \in DOMAIN active_pages :
              LET question == active_pages[p].current_question
                  answers == active_pages[p].answers
                  stats == response'.body
              IN  question # None /\ close_question(p) =>
                    /\ response'.status_code = 200
                    /\ stats.total_answers = Len(answers)
                    /\ stats.correct_answers = Cardinality(ScoredCorrect(answers))
                    /\ stats.is_multiple_choice = question.allow_multiple
                    /\ DOMAIN stats.option_stats = 0..(Len(question.options) - 1)
                    /\ \A i \in DOMAIN stats.option_stats :
                          /\ stats.option_stats[i].count =
                                Cardinality(Selecting(answers, i))
                          /\ stats.option_stats[i].is_correct =
                                question.options[i + 1].is_correct
                          /\ Len(answers) > 0 =>
                                stats.option_stats[i].percentage.num * Len(answers) =
                                    stats.option_stats[i].count * 100
                                        * stats.option_stats[i].percentage.den
                    /\ Len(answers) > 0 =>
                          stats.correct_percentage.num * Len(answers) =
                              stats.correct_answers * 100 * stats.correct_percentage.den
                    /\ active_pages'[p].answers = answers
      ]_vars

(* C12 witness: options [wrong, correct] answered {1} then {0} were closed *)
(* with total 2, correct 1 (50 percent) and a count of 1 (50 percent) for  *)
(* each option.                                                            *)
ClosedWithOneOfTwoCorrect ==
    /\ Answered("close_question")
    /\ response.body.total_answers = 2 /\ response.body.correct_answers = 1
    /\ IsPercent(response.body.correct_percentage, 50)
    /\ DOMAIN response.body.option_stats = {0, 1}
    /\ \A i \in {0, 1} :
          /\ response.body.option_stats[i].count = 1
          /\ IsPercent(response.body.option_stats[i].percentage, 50)
          /\ response.body.option_stats[i].is_correct = (i = 1)
    /\ \E p \in DOMAIN active_pages :
          /\ active_pages[p].answers[1].option_indices = <<1>>
          /\ active_pages[p].answers[2].option_indices = <<0>>

(* C13: a close_question of a question with no stored answer succeeds,     *)
(* with total_answers 0, correct_percentage 0 and percentage 0 for every   *)
(* option, none of them a quotient by zero, and leaves the question        *)
(* inactive.                                                               *)
CloseWithoutAnswersReturnsZeros ==
    [][response'.op = "close_question" =>
          \A p \in DOMAIN active_pages :
              LET question == active_pages[p].current_question
                  stats == response'.body
              IN  /\ question # None /\ active_pages[p].answers = <<>>
                  /\ close_question(p)
                  => /\ response'.status_code = 200
                     /\ stats.total_answers = 0
                     /\ stats.correct_answers = 0
                     /\ IsPercent(stats.correct_percentage, 0)
                     /\ \A i \in 0..(Len(question.options) - 1) :
                           /\ stats.option_stats[i].count = 0
                           /\ IsPercent(stats.option_stats[i].percentage, 0)
                     /\ ~active_pages'[p].current_question.active
                     /\ active_pages'[p].answers = <<>>
      ]_vars

(* C13 witness: a question of three options was closed with no answer.     *)
ClosedWithoutAnswers ==
    /\ Answered("close_question")
    /\ response.body.total_answers = 0
    /\ DOMAIN response.body.option_stats = {0, 1, 2}
    /\ \E p \in DOMAIN active_pages :
          /\ active_pages[p].current_question # None
          /\ ~active_pages[p].current_question.active
          /\ active_pages[p].answers = <<>>

(* C14 as stated: for every page whose question is single-select every     *)
(* stored answer has exactly one index, and for every page every stored    *)
(* answer has at least one index, each within the question's options.      *)
StoredAnswersAreNonEmptyAndInRange ==
    \A p \in DOMAIN active_pages :
        LET question == active_pages[p].current_question
            answers == active_pages[p].answers
        IN  \A k \in DOMAIN answers :
                /\ question # None
                /\ answers[k].option_indices # <<>>
                /\ InRange(question, answers[k].option_indices)
                /\ ~question.allow_multiple => Len(answers[k].option_indices) = 1

(* The correctness rule of the specification applied to a question.        *)
ScoredAgainst(question, option_indices) ==
    IF question.allow_multiple
    THEN \A i \in 0..(Len(question.options) - 1) :
             question.options[i + 1].is_correct <=>
                 \E j \in DOMAIN option_indices : option_indices[j] = i
    ELSE /\ option_indices # <<>>
         /\ question.options[option_indices[1] + 1].is_correct

(* C15: requests are handled one at a time, and so no update is lost and   *)
(* no half-updated state is used: a successful submit adds exactly one     *)
(* answer to exactly one page and keeps the ones before it, a successful   *)
(* publish leaves its page without answers, no other step changes the      *)
(* answers; and every stored answer is in range of, and scored by the      *)
(* correctness rule against, its page's current question.                  *)
NoLostUpdateAndAnswersBelongToQuestion ==
    [][/\ Answered("post_answer")' =>
              \E p \in DOMAIN active_pages :
                  /\ Len(active_pages'[p].answers) = Len(active_pages[p].answers) + 1
                  /\ SubSeq(active_pages'[p].answers, 1, Len(active_pages[p].answers))
                        = active_pages[p].answers
                  /\ active_pages'[p].current_question = active_pages[p].current_question
                  /\ \A q \in DOMAIN active_pages \ {p} :
                        active_pages'[q] = active_pages[q]
       /\ \A p \in DOMAIN active_pages :
              Len(active_pages'[p].answers) # Len(active_pages[p].answers) =>
                  \/ Answered("post_answer")'
                  \/ Answered("post_question")' /\ active_pages'[p].answers = <<>>
       /\ \A p \in DOMAIN active_pages' :
              LET question == active_pages'[p].current_question
                  answers == active_pages'[p].answers
              IN  \A k \in DOMAIN answers :
                      /\ question # None
                      /\ InRange(question, answers[k].option_indices)
                      /\ answers[k].is_correct =
                            ScoredAgainst(question, answers[k].option_indices)
      ]_vars

(* C15 witness: a submit succeeded on a page that holds two answers, one   *)
(* scored correct and one incorrect.                                       *)
SecondAnswerStored ==
    /\ Answered("post_answer")
    /\ \E p \in DOMAIN active_pages :
          /\ Len(active_pages[p].answers) = 2
          /\ active_pages[p].answers[1].is_correct
          /\ ~active_pages[p].answers[2].is_correct

NotFound(op) == HTTPException(op, 404, "Page not found")
InvalidOption == HTTPException("post_answer", 400, "Invalid option index")

(* The failure conditions of a submit, in the order NotFound,              *)
(* NoActiveQuestion, InvalidOption, MultipleNotAllowed: the first that     *)
(* holds in the current state, or NoResponse when none does.               *)
FirstFailure(page_id, option_indices) ==
    IF page_id \notin DOMAIN active_pages THEN NotFound("post_answer")
    ELSE LET question == active_pages[page_id].current_question
         IN  IF question = None THEN NoActiveQuestion
             ELSE IF ~question.active THEN NoActiveQuestion
             ELSE IF ~InRange(question, option_indices) THEN InvalidOption
             ELSE IF ~question.allow_multiple /\ Len(option_indices) > 1
             THEN MultipleNotAllowed
             ELSE NoResponse

(* C16: a submit that fails leaves the whole store unchanged, and a submit *)
(* for which failure conditions hold is answered with exactly the first of *)
(* them in the order NotFound, NoActiveQuestion, InvalidOption,            *)
(* MultipleNotAllowed.                                                     *)
FailingSubmitReportsFirstFailure ==
    [][response'.op = "post_answer" =>
          /\ response'.status_code # 200 => active_pages' = active_pages
          /\ \A page_id \in RequestIds, option_indices \in IndexLists :
                 post_answer(page_id, [option_indices |-> option_indices]) =>
                     \A failure \in {FirstFailure(page_id, option_indices)} :
                         failure # NoResponse =>
                             /\ response' = failure
                             /\ active_pages' = active_pages
      ]_vars

(* C16 witness: a submit to an active single-select question was answered  *)
(* InvalidOption while the question has a single option, so that every     *)
(* list of two indices holds one out of range.                             *)
InvalidOptionReported ==
    /\ response = InvalidOption
    /\ \E p \in DOMAIN active_pages :
          /\ active_pages[p].current_question # None
          /\ active_pages[p].current_question.active
          /\ ~active_pages[p].current_question.allow_multiple
          /\ Len(active_pages[p].current_question.options) = 1
          /\ active_pages[p].answers # <<>>

(***************************************************************************)
(* Further properties of the verifier (checked under SpecVerify).          *)
(***************************************************************************)

(* C17 as stated: whatever the api-key header, verify ends in a Claim, in  *)
(* Invalid or in Expired, and in Invalid for every header that is no       *)
(* issued credential: never in another fault.                              *)
VerifyEndsInClaimOrRejection ==
    Verified =>
        /\ Outcome.kind \in {"Claim", "InvalidAPIKey", "ExpiredAPIKey"}
        /\ Outcome.kind = "Claim" => response.status_code = 200
        /\ Outcome.kind # "Claim" => Outcome \in {InvalidAPIKey, ExpiredAPIKey}
        /\ ~header.issued => Outcome = InvalidAPIKey

(***************************************************************************)
(* Further properties of the store (checked under Spec).                   *)
(***************************************************************************)
CorrectPositions(options) == {i \in DOMAIN options : options[i].is_correct}

(* C18: the allow_multiple a successful publish stores is the requested    *)
(* flag or more than one option marked correct, so that every stored       *)
(* question with two or more correct options allows multiple selections;   *)
(* the flag and the options of a page's question change in no step but a   *)
(* successful publish.                                                     *)
AllowMultipleIsRequestedOrDerived ==
    [][/\ Answered("post_question")' =>
              \A page_id \in DOMAIN active_pages, question \in QuestionInputs :
                  /\ Len(question.options) =
                        Len(active_pages'[page_id].current_question.options)
                  /\ post_question(page_id, question)
                  => active_pages'[page_id].current_question.allow_multiple =
                          (\/ question.allow_multiple
                           \/ Cardinality(CorrectPositions(question.options)) > 1)
       /\ \A p \in DOMAIN active_pages' :
              LET stored == active_pages'[p].current_question
              IN  stored # None /\ Cardinality(CorrectPositions(stored.options)) > 1
                      => stored.allow_multiple
       /\ \A p \in DOMAIN active_pages :
              LET old == active_pages[p].current_question
                  new == active_pages'[p].current_question
              IN  ~Answered("post_question")' /\ old # None =>
                      /\ new # None
                      /\ new.allow_multiple = old.allow_multiple
                      /\ new.options = old.options
      ]_vars

(* C18 witness: a question published with two correct options and without  *)
(* the flag requested (the question inputs carry rich text exactly when    *)
(* they request it) is stored, and closed, allowing multiple selections.   *)
DerivedAllowMultipleStored ==
    \E p \in DOMAIN active_pages :
        LET stored == active_pages[p].current_question
        IN  /\ stored # None
            /\ "html" \notin DOMAIN stored
            /\ Cardinality(CorrectPositions(stored.options)) = 2
            /\ stored.allow_multiple
            /\ ~stored.active

(* C19: a close_question of a page whose question is already closed        *)
(* succeeds, leaves the store unchanged, and answers as the close before   *)
(* it did when that is the response still at hand; and an inactive         *)
(* question becomes active in no step but a successful publish.            *)
CloseIsIdempotent ==
    [][/\ response'.op = "close_question" =>
              \A p \in DOMAIN active_pages :
                  LET question == active_pages[p].current_question
                  IN  question # None /\ ~question.active /\ close_question(p) =>
                          /\ response'.status_code = 200
                          /\ active_pages' = active_pages
                          /\ response'.body.total_answers = Len(active_pages[p].answers)
                          /\ Answered("close_question") /\ Cardinality(DOMAIN active_pages) = 1
                                => response' = response
       /\ \A p \in DOMAIN active_pages :
              LET old == active_pages[p].current_question
                  new == active_pages'[p].current_question
              IN  old # None /\ ~old.active /\ new # None /\ new.active
                      => Answered("post_question")'
      ]_vars

(* C19 witness: close_question has succeeded on a question that is closed  *)
(* and keeps its two answers: the state a first close ends in and every    *)
(* later close of the same question returns to.                            *)
ClosedQuestionClosedAgain ==
    /\ Answered("close_question")
    /\ response.body.total_answers = 2
    /\ \E p \in DOMAIN active_pages :
          /\ active_pages[p].current_question # None
          /\ ~active_pages[p].current_question.active
          /\ Len(active_pages[p].answers) = 2

(* C20: get_page_status, for a known page or not, leaves the store as it   *)
(* is: the stored options keep their flags and the stored answers stay.    *)
StatusReadLeavesStoreUnchanged ==
    [][response'.op = "get_page_status" =>
          /\ active_pages' = active_pages
          /\ \A p \in DOMAIN active_pages' :
                 LET stored == active_pages'[p].current_question
                 IN  stored # None =>
                         \A i \in DOMAIN stored.options :
                             "is_correct" \in DOMAIN stored.options[i]
          /\ response'.status_code = 200 =>
                 \E p \in DOMAIN active_pages : response'.body = PageData(active_pages[p])
      ]_vars

(* C20 witness: a status read returned the view of a page whose stored     *)
(* question still has its flags and whose answer is still stored.          *)
StatusReadOfAnsweredQuestion ==
    /\ StatusView
    /\ \E p \in DOMAIN active_pages :
          /\ PageData(active_pages[p]) = View
          /\ active_pages[p].current_question # None
          /\ \E i \in DOMAIN active_pages[p].current_question.options :
                active_pages[p].current_question.options[i].is_correct
          /\ active_pages[p].answers # <<>>

====
